---- MODULE Spec2Model ----
(***************************************************************************)
(* Model of the QR generator page (src/src/app/page.tsx, component Home):  *)
(* the five React state variables, the canvas ref and the shared working   *)
(* canvas, the logo upload pipeline (FileReader.onload -> Image.onload)    *)
(* and the generation pipeline (embedLogoInQRCode: validation, clearRect,  *)
(* await QRCode.toCanvas, optional logo Image.onload, export).             *)
(*                                                                         *)
(* Strings that the code compares or trims are sequences of one-character  *)
(* strings; '' is the empty sequence.  A data URL is a tuple that begins   *)
(* with a tag and carries what was drawn on the exported canvas.           *)
(***************************************************************************)
EXTENDS Integers, Sequences, FiniteSets, Bags, TLC

\* ---------------------------------------------------------------- bounds
\* number of generations (valid clicks on Generate) explored
MaxGen == 2
\* number of accepted file selections explored
MaxUploads == 2
\* number of Html5QrcodeScanner instances (runs of the effect) explored
MaxScanners == 3
\* number of successful decodes explored
MaxDecodes == 2
\* number of decode errors explored
MaxErrors == 2

\* ------------------------------------------------------------- constants
\* 5 * 1024 * 1024, the size ceiling of handleLogoUpload
MaxFileSize == 5242880
\* ceiling of the external encoder, scaled down to the texts of the model
EncoderCapacity == 2

\* the '' of the code
Empty == <<>>

\* values typed into the textarea: ' ', ' a' and 'abc' ('' is the initial
\* value)
Texts == { <<" ">>, <<" ", "a">>, <<"a", "b", "c">> }

\* files offered by the file picker and file.size of each, in bytes
Files == {"F1", "F2", "F3"}
SizeOf(f) ==
  CASE f = "F1" -> MaxFileSize - 1
    [] f = "F2" -> MaxFileSize
    [] f = "F3" -> MaxFileSize + 1

ErrNoData == "Please enter data"
ErrLogoSize == "Logo must be less than 5MB"
ErrGenerate == "Failed to generate QR code"
ErrNoDownload == "No QR code to download"
NoError == ""

\* ------------------------------------------------------- pure functions
IsSpace(ch) == ch = " "

RECURSIVE TrimStart(_)
TrimStart(s) ==
  IF s = <<>> THEN <<>>
  ELSE IF IsSpace(Head(s)) THEN TrimStart(Tail(s)) ELSE s

RECURSIVE TrimEnd(_)
TrimEnd(s) ==
  IF s = <<>> THEN <<>>
  ELSE IF IsSpace(s[Len(s)]) THEN TrimEnd(SubSeq(s, 1, Len(s) - 1)) ELSE s

\* String.prototype.trim
Trim(s) == TrimEnd(TrimStart(s))

\* the validation without the trim
InputRejectedNoTrim(s) == s = Empty

\* !inputData.trim()
InputRejected(s) == Trim(s) = Empty

\* the size check with >= in place of >
FileTooLargeInclusive(size) == size >= MaxFileSize

\* file.size > 5 * 1024 * 1024
FileTooLarge(size) == size > MaxFileSize

\* QRCode.toCanvas, an external library, rejects exactly when the text
\* exceeds the capacity of the encoder at error correction level H
ToCanvasThrows(text) == Len(text) > EncoderCapacity

\* the working canvas: the QR drawn on it and the logo drawn over it
Blank == [qr |-> <<>>, overlay |-> <<>>]

\* the previous content left on the canvas
ClearRectOmitted(c) == c

\* ctx.clearRect(0, 0, canvas.width, canvas.height)
ClearRect(c) == Blank

\* QRCode.toCanvas renders the whole surface anew
ToCanvas(c, text) == [qr |-> <<text>>, overlay |-> <<>>]

\* ctx.drawImage(logoImg, x, y, logoSize, logoSize)
DrawLogo(c, logo) == [c EXCEPT !.overlay = <<logo>>]

\* canvas.toDataURL('image/png')
ToDataURL(c) == <<"png", c.qr, c.overlay>>

\* the processed logo canvas exported as data URL
ProcessLogo(f) == <<"logo", f>>

\* ----------------------------------------------------------------- state
VARIABLES
  inputData,     \* useState('')
  qrCode,        \* useState(''): the FinalArtifact
  logoPreview,   \* useState(''): the LogoArtifact
  error,         \* useState('')
  loading,       \* useState(false)
  canvasRef,     \* canvasRef.current is attached
  inputFile,     \* the value of the file input (logoInputRef), <<>> if none
  canvas,        \* what is drawn on the working canvas
  encoding,      \* the generation suspended at await QRCode.toCanvas
  logoLoads,     \* generations whose logoImg.onload is pending
  uploads,       \* bag of file selections whose reader/img callback is pending
  nextGen,       \* id of the next generation
  nextUpload,    \* number of the next accepted file selection
  trace,         \* per generation, the steps it has taken
  encoderCalls,  \* number of calls of QRCode.toCanvas
  lastFile,      \* name of the file the last download created, <<>> if none
  \* QRScanner (components/QRScanner.tsx)
  mounted,       \* "inactive", "mounted" or "unmounted"
  onResult,      \* identity of the onResult prop of the current render
  scanners,      \* the Html5QrcodeScanner instances created so far
  scannerRef,    \* scannerRef.current: index into scanners, 0 for null
  delivered,     \* the calls of the caller's callback: <<identity, text>>
  logged,        \* number of console.error calls of the error callback
  \* logo geometry of img.onload in handleLogoUpload
  image,         \* <<img.width, img.height>> of the decoded image, <<>> if none
  placement      \* scale, scaledWidth, scaledHeight, x, y, or <<>> before

vars == <<inputData, qrCode, logoPreview, error, loading, canvasRef, inputFile, canvas,
          encoding, logoLoads, uploads, nextGen, nextUpload, trace,
          encoderCalls, lastFile,
          mounted, onResult, scanners, scannerRef, delivered, logged,
          image, placement>>

pageState == <<inputData, qrCode, logoPreview, error, loading>>
genState == <<canvas, encoding, logoLoads, nextGen, trace, encoderCalls>>
uploadState == <<uploads, nextUpload, inputFile>>

scanState == <<mounted, onResult, scanners, scannerRef, delivered, logged>>
scaleState == <<image, placement>>

\* the scanner's variables and the logo geometry, which the handlers of the
\* page leave alone
elsewhere == <<scanState, scaleState>>

GenIds == 1..MaxGen

\* QRScanner before it is rendered
ScanInit ==
  /\ mounted = "inactive"
  /\ onResult = 1
  /\ scanners = <<>>
  /\ scannerRef = 0
  /\ delivered = <<>>
  /\ logged = 0

PageInit ==
  /\ ScanInit
  /\ inputData = Empty
  /\ qrCode = Empty
  /\ logoPreview = Empty
  /\ error = NoError
  /\ loading = FALSE
  /\ canvasRef = FALSE
  /\ inputFile = <<>>
  /\ canvas = Blank
  /\ encoding = <<>>
  /\ logoLoads = {}
  /\ uploads = EmptyBag
  /\ nextGen = 1
  /\ nextUpload = 1
  /\ trace = [g \in GenIds |-> <<>>]
  /\ encoderCalls = 0
  /\ lastFile = <<>>

Init ==
  /\ PageInit
  /\ image = <<>>
  /\ placement = <<>>

\* --------------------------------------------------------------- actions
\* React commits the hidden <canvas ref={canvasRef}>: useRef(null) holds
\* null until then, the case embedLogoInQRCode guards with if (!canvas)
AttachCanvas ==
  /\ ~canvasRef
  /\ canvasRef' = TRUE
  /\ UNCHANGED <<pageState, genState, uploadState>>
  /\ UNCHANGED <<lastFile, elsewhere>>

\* textarea onChange
SetInputData(t) ==
  /\ inputData' = t
  /\ UNCHANGED <<qrCode, logoPreview, error, loading, canvasRef, genState,
                 uploadState>>
  /\ UNCHANGED <<lastFile, elsewhere>>

\* handleLogoUpload: the synchronous part, run by the change event of the
\* file input when the picked file differs from the one it holds (a change
\* event without a file does nothing)
handleLogoUpload(f) ==
  /\ inputFile # <<f>>
  /\ inputFile' = <<f>>
  /\ IF FileTooLarge(SizeOf(f))
     THEN /\ error' = ErrLogoSize
          /\ UNCHANGED <<inputData, qrCode, logoPreview, loading, canvasRef,
                         genState, uploads, nextUpload>>
     ELSE /\ nextUpload <= MaxUploads
          /\ uploads' = uploads (+) SetToBag({[file |-> f, stage |-> "reading"]})
          /\ nextUpload' = nextUpload + 1
          /\ UNCHANGED <<pageState, canvasRef, genState>>
  /\ UNCHANGED <<lastFile, elsewhere>>

\* reader.onload: img.src = event.target.result
ReaderOnload(u) ==
  /\ BagIn(u, uploads)
  /\ u.stage = "reading"
  /\ uploads' = (uploads (-) SetToBag({u}))
                  (+) SetToBag({[u EXCEPT !.stage = "decoding"]})
  /\ UNCHANGED <<pageState, canvasRef, genState, nextUpload, inputFile>>
  /\ UNCHANGED <<lastFile, elsewhere>>

\* img.onload: process the image and setLogoPreview
ImgOnload(u) ==
  /\ BagIn(u, uploads)
  /\ u.stage = "decoding"
  /\ uploads' = uploads (-) SetToBag({u})
  /\ logoPreview' = ProcessLogo(u.file)
  /\ UNCHANGED <<inputData, qrCode, error, loading, canvasRef, genState,
                 nextUpload, inputFile>>
  /\ UNCHANGED <<lastFile, elsewhere>>

\* a removeLogo that also calls setError('')
removeLogoClearsError ==
  /\ logoPreview # Empty
  /\ logoPreview' = Empty
  /\ inputFile' = <<>>
  /\ error' = NoError
  /\ UNCHANGED <<inputData, qrCode, loading, canvasRef, genState,
                 uploads, nextUpload>>
  /\ UNCHANGED <<lastFile, elsewhere>>

\* removeLogo, reachable through the button shown while logoPreview is set
removeLogo ==
  /\ logoPreview # Empty
  /\ logoPreview' = Empty
  /\ inputFile' = <<>>
  /\ UNCHANGED <<inputData, qrCode, error, loading, canvasRef, genState,
                 uploads, nextUpload>>
  /\ UNCHANGED <<lastFile, elsewhere>>

\* embedLogoInQRCode up to the await, triggered by the Generate button,
\* which is disabled while loading
embedLogoInQRCode ==
  /\ ~loading
  /\ IF InputRejected(inputData)
     THEN /\ error' = ErrNoData
          /\ UNCHANGED <<inputData, qrCode, logoPreview, loading, canvasRef,
                         genState, uploadState>>
     ELSE /\ nextGen <= MaxGen
          /\ nextGen' = nextGen + 1
          /\ error' = NoError
          /\ IF ~canvasRef
             THEN \* if (!canvas) return; the finally clears loading
                  /\ loading' = FALSE
                  /\ trace' = [trace EXCEPT ![nextGen] = <<"noCanvas">>]
                  /\ UNCHANGED <<canvas, encoding, encoderCalls>>
             ELSE /\ loading' = TRUE
                  /\ canvas' = ClearRect(canvas)
                  /\ encoding' = <<[id |-> nextGen, text |-> inputData,
                                    logo |-> logoPreview]>>
                  /\ encoderCalls' = encoderCalls + 1
                  /\ trace' = [trace EXCEPT ![nextGen] = <<"clear">>]
          /\ UNCHANGED <<inputData, qrCode, logoPreview, canvasRef, logoLoads,
                         uploadState>>
  /\ UNCHANGED <<lastFile, elsewhere>>

\* what the continuation publishes when no logo was captured
ExportPlain(c) == ToDataURL(c)

\* setLoading(false) at the end of the try block in place of the finally
LoadingClearedInTryOnly(g) == ToCanvasThrows(g.text)

\* loading after the finally block
FinallyLoading(g) == FALSE

\* await QRCode.toCanvas resolves, the QR rendered on the canvas: the rest
\* of the try block and the finally.  Handlers and callbacks of other
\* events may run between the trigger and this step.
EncodeResolved ==
  /\ encoding # <<>>
  /\ LET g == encoding[1]
         c == ToCanvas(canvas, g.text)
     IN /\ ~ToCanvasThrows(g.text)
        /\ canvas' = c
        /\ IF g.logo # Empty
           THEN /\ logoLoads' = logoLoads \cup {g}
                /\ trace' = [trace EXCEPT ![g.id] = Append(@, "encoded")]
                /\ UNCHANGED qrCode
           ELSE /\ qrCode' = ExportPlain(c)
                /\ trace' = [trace EXCEPT ![g.id] = @ \o <<"encoded", "exported">>]
                /\ UNCHANGED logoLoads
        /\ loading' = FinallyLoading(g)
  /\ encoding' = <<>>
  /\ UNCHANGED <<inputData, logoPreview, error, canvasRef, nextGen,
                 encoderCalls, uploadState>>
  /\ UNCHANGED <<lastFile, elsewhere>>

\* the catch block exporting the canvas it was left with
CatchExportsCanvas(old, c) == ToDataURL(c)

\* qrCode after the catch block
CatchQRCode(old, c) == old

\* await QRCode.toCanvas rejects: catch and finally
EncodeRejected ==
  /\ encoding # <<>>
  /\ LET g == encoding[1]
     IN /\ ToCanvasThrows(g.text)
        /\ error' = ErrGenerate
        /\ qrCode' = CatchQRCode(qrCode, canvas)
        /\ loading' = FinallyLoading(g)
        /\ trace' = [trace EXCEPT ![g.id] = Append(@, "failed")]
  /\ encoding' = <<>>
  /\ UNCHANGED <<inputData, logoPreview, canvasRef, canvas, logoLoads,
                 nextGen, encoderCalls, uploadState>>
  /\ UNCHANGED <<lastFile, elsewhere>>

\* the export taken before the logo is drawn
ExportBeforeDraw(c, logo) == ToDataURL(c)

\* what logoImg.onload publishes: draw the logo, then export
ExportWithLogo(c, logo) == ToDataURL(DrawLogo(c, logo))

\* logoImg.onload that draws the logo and never calls setQRCode
LogoImgOnloadNoExport(g) ==
  /\ g \in logoLoads
  /\ logoLoads' = logoLoads \ {g}
  /\ canvas' = DrawLogo(canvas, g.logo)
  /\ trace' = [trace EXCEPT ![g.id] = @ \o <<"logoLoaded", "logoDrawn">>]
  /\ UNCHANGED <<inputData, qrCode, logoPreview, error, loading, canvasRef,
                 encoding, nextGen, encoderCalls, uploadState>>
  /\ UNCHANGED <<lastFile, elsewhere>>

\* logoImg.onload of generation g
LogoImgOnload(g) ==
  /\ g \in logoLoads
  /\ logoLoads' = logoLoads \ {g}
  /\ canvas' = DrawLogo(canvas, g.logo)
  /\ qrCode' = ExportWithLogo(canvas, g.logo)
  /\ trace' = [trace EXCEPT ![g.id] = @ \o <<"logoLoaded", "logoDrawn", "exported">>]
  /\ UNCHANGED <<inputData, logoPreview, error, loading, canvasRef, encoding,
                 nextGen, encoderCalls, uploadState>>
  /\ UNCHANGED <<lastFile, elsewhere>>

\* values of Date.now() at a download
Clock == {1, 2}

\* `qrcode-${Date.now()}.png`
FileName(now) == <<"qrcode-", now, ".png">>

\* downloadQRCode without the return after setError
downloadQRCodeNoReturn(now) ==
  /\ IF qrCode = Empty THEN error' = ErrNoDownload ELSE UNCHANGED error
  /\ lastFile' = FileName(now)
  /\ UNCHANGED <<inputData, qrCode, logoPreview, loading, canvasRef, genState,
                 uploadState, elsewhere>>

\* downloadQRCode: the handler checks qrCode itself; the button that calls it
\* is rendered only while qrCode is set
downloadQRCode(now) ==
  /\ IF qrCode = Empty
     THEN /\ error' = ErrNoDownload
          /\ UNCHANGED lastFile
     ELSE /\ lastFile' = FileName(now)
          /\ UNCHANGED error
  /\ UNCHANGED <<inputData, qrCode, logoPreview, loading, canvasRef, genState,
                 uploadState, elsewhere>>

\* the page without the download
CoreNext ==
  \/ AttachCanvas
  \/ \E t \in Texts : SetInputData(t)
  \/ \E f \in Files : handleLogoUpload(f)
  \/ \E u \in BagToSet(uploads) : ReaderOnload(u)
  \/ \E u \in BagToSet(uploads) : ImgOnload(u)
  \/ removeLogo
  \/ embedLogoInQRCode
  \/ EncodeResolved
  \/ EncodeRejected
  \/ \E g \in logoLoads : LogoImgOnload(g)

Next ==
  \/ CoreNext
  \/ \E now \in Clock : downloadQRCode(now)

Spec == Init /\ [][Next]_vars

\* the event loop runs every callback that is due: the promise of toCanvas
\* settles and every pending logoImg.onload fires.  downloadQRCode, which
\* writes error and the downloaded file only and is read by no step of a
\* generation, is left to Spec.
FairSpec ==
  /\ Init /\ [][CoreNext]_vars
  /\ WF_vars(EncodeResolved)
  /\ WF_vars(EncodeRejected)
  /\ WF_vars(\E g \in logoLoads : LogoImgOnload(g))

\* ------------------------------------------------------- logo geometry
\* JavaScript numbers are IEEE 754 binary64 values.  A positive one is
\* [m |-> its 53 significand bits, most significant first, e |-> the
\* exponent of the first bit]; every operation rounds to nearest, ties to
\* even.
Precision == 53

\* const maxSize = 100
maxSize == 100
\* const borderWidth = 10
borderWidth == 10

\* img.width and img.height explored
Dims == {1, 2, 3, 77, 80, 100, 147, 160, 281, 1000}

Zeros(k) == [i \in 1..k |-> 0]

\* the arithmetic below works on groups of LimbBits binary digits
LimbBits == 12
Base == 2 ^ LimbBits

\* without leading zeros
Strip(b) ==
  LET ones == {i \in 1..Len(b) : b[i] = 1}
  IN  IF ones = {} THEN <<>>
      ELSE SubSeq(b, CHOOSE i \in ones : \A j \in ones : i <= j, Len(b))

\* binary digits of the natural n < 2^31, most significant first
ToBits(n) == Strip([i \in 1..31 |-> (n \div (2 ^ (31 - i))) % 2])

\* the natural whose binary digits are b
RECURSIVE Value(_)
Value(b) ==
  IF Len(b) = 0 THEN 0
  ELSE IF Len(b) = 1 THEN b[1]
  ELSE LET h == Len(b) \div 2
       IN  Value(SubSeq(b, 1, h)) * (2 ^ (Len(b) - h)) + Value(SubSeq(b, h + 1, Len(b)))

\* the digits b in groups of LimbBits, most significant first
ToLimbs(b) ==
  LET p == Zeros((LimbBits - (Len(b) % LimbBits)) % LimbBits) \o b
  IN  [j \in 1..(Len(p) \div LimbBits) |->
         Value(SubSeq(p, (j - 1) * LimbBits + 1, j * LimbBits))]

\* the binary digits of a sequence of limbs
FromLimbs(l) ==
  [i \in 1..(Len(l) * LimbBits) |->
     (l[((i - 1) \div LimbBits) + 1] \div (2 ^ (LimbBits - 1 - ((i - 1) % LimbBits)))) % 2]

\* b + 1
Inc(b) ==
  LET zeros == {i \in 1..Len(b) : b[i] = 0}
  IN  IF zeros = {} THEN <<1>> \o Zeros(Len(b))
      ELSE LET z == CHOOSE i \in zeros : \A j \in zeros : j <= i
           IN  [i \in 1..Len(b) |-> IF i < z THEN b[i] ELSE IF i = z THEN 1 ELSE 0]

\* b - 1, for b > 0
Dec(b) ==
  LET ones == {i \in 1..Len(b) : b[i] = 1}
      z    == CHOOSE i \in ones : \A j \in ones : j <= i
  IN  [i \in 1..Len(b) |-> IF i < z THEN b[i] ELSE IF i = z THEN 0 ELSE 1]

\* the binary64 value nearest to b * 2^(top - Len(b) + 1), plus a nonzero
\* amount below the last bit of b if sticky; b has no leading zero
RoundNearestEven(b, top, sticky) ==
  IF Len(b) <= Precision
  THEN [m |-> b \o Zeros(Precision - Len(b)), e |-> top]
  ELSE LET kept  == SubSeq(b, 1, Precision)
           guard == b[Precision + 1]
           rest  == sticky \/ \E i \in (Precision + 2)..Len(b) : b[i] = 1
           up    == guard = 1 /\ (rest \/ kept[Precision] = 1)
           r     == IF up THEN Inc(kept) ELSE kept
       IN  IF Len(r) > Precision
           THEN [m |-> SubSeq(r, 1, Precision), e |-> top + 1]
           ELSE [m |-> r, e |-> top]

\* the number n >= 1 as a binary64 value
FromInt(n) == RoundNearestEven(ToBits(n), Len(ToBits(n)) - 1, FALSE)

\* long division of the limbs from position i on by d < Base: quotient
\* limbs and remainder
RECURSIVE LongDiv(_, _, _, _, _)
LongDiv(l, i, d, r, q) ==
  IF i > Len(l) THEN [q |-> q, r |-> r]
  ELSE LET v == r * Base + l[i]
       IN  LongDiv(l, i + 1, d, v % d, Append(q, v \div d))

\* n / d in binary64, n and d positive integers
Div(n, d) ==
  LET k   == Precision + 2 + Len(ToBits(d))
      res == LongDiv(ToLimbs(ToBits(n) \o Zeros(k)), 1, d, 0, <<>>)
      q   == Strip(FromLimbs(res.q))
  IN  RoundNearestEven(q, Len(q) - 1 - k, res.r # 0)

\* limbs of l * k + carry, from limb i down, k < Base
RECURSIVE MulLimbs(_, _, _, _)
MulLimbs(l, i, k, carry) ==
  IF i = 0 THEN <<carry>>
  ELSE LET v == l[i] * k + carry
       IN  Append(MulLimbs(l, i - 1, k, v \div Base), v % Base)

\* k * v in binary64, k a positive integer
Times(k, v) ==
  LET l == ToLimbs(v.m)
      p == Strip(FromLimbs(MulLimbs(l, Len(l), k, 0)))
  IN  RoundNearestEven(p, v.e - (Precision - 1) + Len(p) - 1, FALSE)

\* limbs of a - b - borrow from limb i down, a and b of one length
RECURSIVE SubLimbs(_, _, _, _)
SubLimbs(a, b, i, borrow) ==
  IF i = 0 THEN <<>>
  ELSE LET v == a[i] - b[i] - borrow
       IN  Append(SubLimbs(a, b, i - 1, IF v < 0 THEN 1 ELSE 0),
                  IF v < 0 THEN v + Base ELSE v)

\* n - v in binary64, n a positive integer and 0 < v < n
Minus(n, v) ==
  LET a == ToLimbs(ToBits(n) \o Zeros(Precision - 1 - v.e))
      b == ToLimbs(Zeros(Len(a) * LimbBits - Precision) \o v.m)
      d == Strip(FromLimbs(SubLimbs(a, b, Len(a), 0)))
  IN  RoundNearestEven(d, Len(d) - 1 + v.e - (Precision - 1), FALSE)

\* v / 2
Half(v) == [v EXCEPT !.e = @ - 1]

Less(a, b) ==
  \/ a.e < b.e
  \/ /\ a.e = b.e
     /\ \E i \in 1..Precision :
          /\ a.m[i] < b.m[i]
          /\ \A j \in 1..(i - 1) : a.m[j] = b.m[j]

Leq(a, b) == a = b \/ Less(a, b)

\* the larger of the two
FMax(a, b) == IF Less(a, b) THEN b ELSE a

\* Math.min
FMin(a, b) == IF Less(b, a) THEN b ELSE a

\* the scale and the draw rectangle img.onload computes for a w x h image
Placement(w, h) ==
  LET scale == FMin(Div(maxSize - 2 * borderWidth, w),
                    Div(maxSize - 2 * borderWidth, h))
      scaledWidth  == Times(w, scale)
      scaledHeight == Times(h, scale)
  IN  [scale |-> scale,
       scaledWidth |-> scaledWidth,
       scaledHeight |-> scaledHeight,
       x |-> Half(Minus(maxSize, scaledWidth)),
       y |-> Half(Minus(maxSize, scaledHeight))]

\* an image of any of the explored sizes has been decoded
ScaleInit ==
  /\ PageInit
  /\ image \in Dims \X Dims
  /\ placement = <<>>

\* img.onload computes where the image is drawn on the 100 x 100 canvas
ComputePlacement ==
  /\ image # <<>>
  /\ placement = <<>>
  /\ placement' = Placement(image[1], image[2])
  /\ UNCHANGED <<image, pageState, canvasRef, genState, uploadState, lastFile, scanState>>

ScaleNext == ComputePlacement

ScaleSpec == ScaleInit /\ [][ScaleNext]_vars

\* ------------------------------------------------------------ QRScanner
\* texts the scanning widget decodes
DecodedTexts == {"x", "y"}

\* every variable of the page
pageVars == <<pageState, canvasRef, genState, uploadState, lastFile, scaleState>>

\* new Html5QrcodeScanner(...) rendered with callbacks that close over cb
NewScanner(cb) == [cb |-> cb, active |-> TRUE]

\* if (scannerRef.current) scannerRef.current.clear()
Clear(scs, ref) == IF ref = 0 THEN scs ELSE [scs EXCEPT ![ref].active = FALSE]

\* the previous effect left without cleanup
EffectCleanupSkipped(scs, ref) == scs

\* the cleanup returned by the effect
EffectCleanup(scs, ref) == Clear(scs, ref)

\* an error callback that tears the scanner down
OnScanErrorClears(scs, ref) == Clear(scs, ref)

\* the instances after the error callback, which only logs
OnScanError(scs, ref) == scs

\* the body of the effect: create the instance, store it in the ref, render
RunEffect(scs, cb) == Append(scs, NewScanner(cb))

\* the component is rendered for the first time and its effect runs
Mount ==
  /\ mounted = "inactive"
  /\ mounted' = "mounted"
  /\ scanners' = RunEffect(scanners, onResult)
  /\ scannerRef' = Len(scanners')
  /\ UNCHANGED <<onResult, delivered, logged, pageVars>>

\* the parent renders the component with an onResult of a new identity:
\* the dependency [onResult] changed, so the cleanup of the previous effect
\* runs and then the effect again
Rerender ==
  /\ mounted = "mounted"
  /\ Len(scanners) < MaxScanners
  /\ onResult' = onResult + 1
  /\ scanners' = RunEffect(EffectCleanup(scanners, scannerRef), onResult')
  /\ scannerRef' = Len(scanners')
  /\ UNCHANGED <<mounted, delivered, logged, pageVars>>

\* the success callback of instance i: onResult(decodedText), then clear
\* of the instance in the ref
DecodeSuccess(i, text) ==
  /\ i \in 1..Len(scanners)
  /\ scanners[i].active
  /\ Len(delivered) < MaxDecodes
  /\ delivered' = Append(delivered, <<scanners[i].cb, text>>)
  /\ scanners' = Clear(scanners, scannerRef)
  /\ UNCHANGED <<mounted, onResult, scannerRef, logged, pageVars>>

\* the error callback of instance i: console.error(error)
DecodeError(i) ==
  /\ i \in 1..Len(scanners)
  /\ scanners[i].active
  /\ logged < MaxErrors
  /\ logged' = logged + 1
  /\ scanners' = OnScanError(scanners, scannerRef)
  /\ UNCHANGED <<mounted, onResult, scannerRef, delivered, pageVars>>

\* the component is removed: the cleanup of the last effect runs
Unmount ==
  /\ mounted = "mounted"
  /\ mounted' = "unmounted"
  /\ scanners' = EffectCleanup(scanners, scannerRef)
  /\ UNCHANGED <<onResult, scannerRef, delivered, logged, pageVars>>

ScanNext ==
  \/ Mount
  \/ Rerender
  \/ \E i \in 1..Len(scanners), text \in DecodedTexts : DecodeSuccess(i, text)
  \/ \E i \in 1..Len(scanners) : DecodeError(i)
  \/ Unmount

ScannerSpec == Init /\ [][ScanNext]_vars

\* ---------------------------------------------------- shared predicates
Has(seq, step) == \E i \in 1..Len(seq) : seq[i] = step

\* generation id is suspended at the await with the captured text and logo
Awaiting(id) == encoding # <<>> /\ encoding[1].id = id

\* a valid trigger of embedLogoInQRCode with the canvas attached
ValidTrigger == embedLogoInQRCode /\ ~InputRejected(inputData) /\ canvasRef

\* ------------------------------------------------------------------- C1
\* generation id has been triggered with text within the encoder's capacity
\* and has not left the pipeline: it is suspended at the await or its
\* logoImg.onload is pending
Owes(id) ==
  \/ Awaiting(id) /\ Len(encoding[1].text) <= EncoderCapacity
  \/ \E g \in logoLoads : g.id = id

\* C1: a generation triggered with non-blank text within the encoder's
\* capacity and the canvas attached clears the error at its trigger and
\* eventually exports, with and without a captured logo: it leaves the
\* pipeline only by a step that records "exported" and leaves qrCode
\* non-empty, and again and again no such generation is left in the pipeline.
C1_GenerationPublishes ==
  /\ [][ValidTrigger => error' = NoError]_vars
  /\ [][\A id \in GenIds :
         (Owes(id) /\ ~Owes(id)') =>
           (Has(trace'[id], "exported") /\ qrCode' # Empty)]_vars
  /\ []<>(\A id \in GenIds : ~Owes(id))

\* a generation that captured a logo has exported, and one without a logo too
C1_Witness ==
  \E a, b \in GenIds :
    /\ trace[a] = <<"clear", "encoded", "logoLoaded", "logoDrawn", "exported">>
    /\ trace[b] = <<"clear", "encoded", "exported">>
    /\ qrCode # Empty
    /\ error = NoError

\* ------------------------------------------------------------------- C2
WhitespaceOnly(s) == \A i \in 1..Len(s) : s[i] = " "

\* C2: a trigger of embedLogoInQRCode while inputData is empty or consists
\* of spaces only sets the validation error, does not call the encoder,
\* draws nothing on the canvas, starts no generation, and leaves qrCode and
\* loading as they were.
C2_BlankInputRejected ==
  [][(embedLogoInQRCode /\ WhitespaceOnly(inputData)) =>
       /\ error' = ErrNoData
       /\ UNCHANGED <<qrCode, loading, canvas, encoding, encoderCalls,
                      logoLoads, trace, nextGen>>]_vars

\* the validation error is shown for a text of spaces, an earlier artifact kept
C2_Witness ==
  /\ error = ErrNoData
  /\ inputData # Empty
  /\ WhitespaceOnly(inputData)
  /\ qrCode # Empty
  /\ ~loading

\* ------------------------------------------------------------------- C3
\* generation id takes its failure step
FailStep(id) == ~Has(trace[id], "failed") /\ Has(trace'[id], "failed")

\* C3 as stated: after a failed generation the generic error is shown and
\* qrCode is empty, also when an earlier generation had produced an artifact.
C3_FailureLeavesArtifactEmpty ==
  [][\A id \in GenIds :
       FailStep(id) => (error' = ErrGenerate /\ qrCode' = Empty)]_vars

\* C3 amended: a failed generation shows the generic error and does not
\* touch qrCode, which keeps the value it had before the failure (empty only
\* if nothing was published before).
C3_FailureKeepsArtifact ==
  [][\A id \in GenIds :
       FailStep(id) => (error' = ErrGenerate /\ qrCode' = qrCode)]_vars

\* a generation failed while the artifact of an earlier one is still shown
C3_Witness ==
  \E id \in GenIds :
    /\ Has(trace[id], "failed")
    /\ error = ErrGenerate
    /\ qrCode # Empty

\* ------------------------------------------------------------------- C4
\* a generation is in flight: suspended at the await or waiting for its
\* logo image to load, its artifact not yet exported
InFlight == encoding # <<>> \/ logoLoads # {}

\* C4: loading is true for as long as a generation is in flight, so the
\* Generate button, disabled while loading, cannot start a second one.
C4_LoadingCoversGeneration == InFlight => loading

\* ------------------------------------------------------------------- C5
\* generation id leaves the await (resolved or rejected) or returns early
SettleStep(id) ==
  \/ trace[id] = <<"clear">> /\ trace'[id] # trace[id]
  \/ trace[id] = <<>> /\ trace'[id] = <<"noCanvas">>

\* C5: loading, once set, is cleared again: whenever loading is true it
\* eventually becomes false, and the step in which a generation's encode
\* resolves, rejects or the canvas is missing ends with loading false.
C5_LoadingCleared ==
  /\ loading ~> ~loading
  /\ [][\A id \in GenIds : SettleStep(id) => ~loading']_vars

\* loading is false after a failed generation and after an early return
C5_Witness ==
  /\ ~loading
  /\ \E a, b \in GenIds :
       /\ trace[a] = <<"noCanvas">>
       /\ trace[b] = <<"clear", "failed">>

\* ------------------------------------------------------------------- C6
LogoSteps == <<"clear", "encoded", "logoLoaded", "logoDrawn", "exported">>

\* generation id takes its logoImg.onload step
DrawStep(id) == ~Has(trace[id], "logoDrawn") /\ Has(trace'[id], "logoDrawn")

\* C6: within a generation that captured a logo the steps are clear,
\* encode, logo load, logo draw, export, in this order: a logo load is
\* pending only after the generation's encode has completed, the
\* generation's logo is on the canvas after its onload step, and what that
\* step publishes is the export of the canvas with the logo drawn.
C6_LogoOrder ==
  /\ [](\A g \in logoLoads : trace[g.id] = <<"clear", "encoded">>)
  /\ [](\A id \in GenIds : Awaiting(id) => trace[id] = <<"clear">>)
  /\ [][\A g \in logoLoads :
         DrawStep(g.id) =>
           /\ trace'[g.id] = LogoSteps
           /\ canvas'.overlay = <<g.logo>>
           /\ qrCode' = ToDataURL(canvas')]_vars

\* a generation with a logo went through all five steps
C6_Witness ==
  \E id \in GenIds :
    /\ trace[id] = LogoSteps
    /\ Len(qrCode) = 3
    /\ qrCode[2] # <<>>
    /\ qrCode[3] # <<>>

\* ------------------------------------------------------------------- C7
\* C7: once removeLogo has run, logoPreview stays empty until another file
\* is selected: while the file input holds no file (it is reset by
\* removeLogo and filled by every selection) logoPreview is empty.
C7_RemovalSticks == inputFile = <<>> => logoPreview = Empty

\* ------------------------------------------------------------------- C8
\* C8: when no read or image load is pending and the most recently selected
\* file, the one the file input holds, was accepted, logoPreview is the logo
\* derived from that file.
C8_LastSelectedWins ==
  \A f \in Files :
    (uploads = EmptyBag /\ inputFile = <<f>> /\ SizeOf(f) <= 5 * 1024 * 1024)
      => logoPreview = ProcessLogo(f)

\* ------------------------------------------------------------------- C9
\* C9: a selected file is rejected exactly when its size exceeds
\* 5,242,880 bytes; a rejected selection shows the size error, starts no
\* read and leaves logoPreview as it was; an accepted one starts a read and
\* shows no error.
C9_SizeCeiling ==
  [][\A f \in Files :
       handleLogoUpload(f) =>
         IF SizeOf(f) > 5 * 1024 * 1024
         THEN /\ error' = ErrLogoSize
              /\ UNCHANGED <<logoPreview, uploads, nextUpload>>
         ELSE /\ uploads' = uploads (+) SetToBag({[file |-> f, stage |-> "reading"]})
              /\ UNCHANGED <<logoPreview, error>>]_vars

\* the size error is shown while the logo of an earlier selection is kept
\* and no read is pending
C9_Witness ==
  /\ error = ErrLogoSize
  /\ inputFile = <<"F3">>
  /\ logoPreview # Empty
  /\ uploads = EmptyBag

\* ------------------------------------------------------------------ C10
\* any step of a generation
GenerationStep ==
  \/ embedLogoInQRCode
  \/ EncodeResolved
  \/ EncodeRejected
  \/ \E g \in logoLoads : LogoImgOnload(g)

\* C10: no step of a generation changes logoPreview or inputData, and every
\* valid trigger clears the canvas and calls the encoder again.
C10_GenerationFrame ==
  /\ [][GenerationStep => UNCHANGED <<logoPreview, inputData>>]_vars
  /\ [][ValidTrigger =>
         /\ canvas' = Blank
         /\ encoderCalls' = encoderCalls + 1
         /\ encoding' = <<[id |-> nextGen, text |-> inputData,
                           logo |-> logoPreview]>>]_vars

\* a second generation ran on a canvas that held the first one's output,
\* with the logo still in place
C10_Witness ==
  /\ encoderCalls = 2
  /\ logoPreview # Empty
  /\ trace[1] = LogoSteps
  /\ trace[2] # <<>>

\* ------------------------------------------------------------------ C11
\* C11: a download requested while qrCode is empty sets the error 'No QR
\* code to download', creates no file and changes nothing else; a download
\* requested while qrCode is set creates the one file qrcode-<now>.png and
\* leaves qrCode, error, logoPreview and loading as they were.
C11_Download ==
  [][\A now \in Clock :
       downloadQRCode(now) =>
         IF qrCode = Empty
         THEN /\ error' = ErrNoDownload
              /\ UNCHANGED <<lastFile, inputData, qrCode, logoPreview, loading,
                             canvas, encoding, logoLoads, uploads, inputFile>>
         ELSE /\ lastFile' = <<"qrcode-", now, ".png">>
              /\ UNCHANGED <<qrCode, error, logoPreview, loading>>]_vars

\* the download error is shown, no file was created
C11_Witness ==
  /\ error = ErrNoDownload
  /\ qrCode = Empty
  /\ lastFile = <<>>

\* ------------------------------------------------------------------ C12
\* C12: the scanner is single-shot: after the first successful decode has
\* been delivered to the caller no further decode is delivered, also when
\* the caller's callback changes identity after handling the result.
C12_SingleShot == Len(delivered) <= 1

\* ------------------------------------------------------------------ C13
\* C13: after the component is unmounted every scanner instance it created,
\* those of effect re-runs included, has been cleared.
C13_AllCleared ==
  mounted = "unmounted" => \A i \in 1..Len(scanners) : ~scanners[i].active

\* unmounted after the effect ran more than once
C13_Witness ==
  /\ mounted = "unmounted"
  /\ Len(scanners) >= 2

\* ------------------------------------------------------------------ C14
\* C14: a decode error only logs: the step that logs leaves the deliveries,
\* the instances and the ref as they were, and as long as nothing has been
\* decoded the instance in the ref of the mounted component keeps scanning,
\* whatever the number of errors logged.
C14_ErrorNonFatal ==
  /\ [][logged' # logged =>
         /\ logged' = logged + 1
         /\ UNCHANGED <<delivered, scanners, scannerRef, mounted>>]_vars
  /\ []((mounted = "mounted" /\ delivered = <<>>) =>
         (scannerRef # 0 /\ scanners[scannerRef].active))

\* a decode was delivered by the first instance after two logged errors
C14_Witness ==
  /\ logged >= 2
  /\ Len(scanners) = 1
  /\ Len(delivered) = 1

\* ------------------------------------------------------------------ C15
\* the side of the square the image is fitted into, as a binary64 value
Eighty == FromInt(maxSize - 2 * borderWidth)
\* the binary64 values next to 80
Succ80 == [Eighty EXCEPT !.m = Inc(@)]
Pred80 == [Eighty EXCEPT !.m = Dec(@)]

InOffsetRange(v, low) == Leq(low, v) /\ Less(v, FromInt(maxSize \div 2))

\* C15 as stated: for every image of at least 1 x 1 the scaled width and
\* height are at most 80, the larger of them is 80, and both draw offsets
\* are in [10, 50).
C15_ExactFit ==
  placement # <<>> =>
    /\ Leq(placement.scaledWidth, Eighty)
    /\ Leq(placement.scaledHeight, Eighty)
    /\ FMax(placement.scaledWidth, placement.scaledHeight) = Eighty
    /\ InOffsetRange(placement.x, FromInt(borderWidth))
    /\ InOffsetRange(placement.y, FromInt(borderWidth))

\* C15 (amended): the larger scaled dimension is 80 or one of the two
\* binary64 values next to 80, the longer side of the image is the longer
\* side of the draw rectangle, and both offsets are below 50 and at least
\* (100 - succ(80)) / 2, the value just below 10.
C15_FitWithinRounding ==
  placement # <<>> =>
    /\ FMax(placement.scaledWidth, placement.scaledHeight) \in {Pred80, Eighty, Succ80}
    /\ image[1] <= image[2] => Leq(placement.scaledWidth, placement.scaledHeight)
    /\ image[2] <= image[1] => Leq(placement.scaledHeight, placement.scaledWidth)
    /\ InOffsetRange(placement.x, Half(Minus(maxSize, Succ80)))
    /\ InOffsetRange(placement.y, Half(Minus(maxSize, Succ80)))

\* a 147 pixel wide image is scaled to a width above 80 and drawn at an x
\* below 10
C15_Witness ==
  /\ placement # <<>>
  /\ image[1] = 147
  /\ placement.scaledWidth = Succ80
  /\ Less(placement.x, FromInt(borderWidth))

\* ------------------------------------------------------------------ C16
\* the export of a surface holding the QR of the text generation g captured,
\* with the logo g captured overlaid if it captured one
ArtifactOf(g) ==
  <<"png", <<g.text>>, IF g.logo = Empty THEN <<>> ELSE <<g.logo>>>>

\* C16: every setQRCode publishes the artifact of the generation that calls
\* it: the continuation of a generation without logo and the logoImg.onload
\* of a generation with a logo both set qrCode to the export of that
\* generation's QR, with that generation's logo if and only if it captured
\* one.
C16_PublishedIntegrity ==
  /\ [][(EncodeResolved /\ encoding[1].logo = Empty) =>
         qrCode' = ArtifactOf(encoding[1])]_vars
  /\ [][\A g \in logoLoads : LogoImgOnload(g) => qrCode' = ArtifactOf(g)]_vars

\* ------------------------------------------------------------------ C17
\* C17: a displayed error is cleared only by the start of a generation with
\* non-blank text; an accepted logo upload and its reader and image
\* callbacks, removeLogo, an edit of the text and a download with qrCode
\* set leave error as it was.
C17_ErrorFrame ==
  /\ [][(error # NoError /\ error' = NoError) =>
         (~WhitespaceOnly(inputData) /\ nextGen' = nextGen + 1)]_vars
  /\ [][\A f \in Files :
         (handleLogoUpload(f) /\ SizeOf(f) <= 5 * 1024 * 1024) => UNCHANGED error]_vars
  /\ [][(logoPreview' # logoPreview \/ uploads' # uploads \/ inputData' # inputData)
         => UNCHANGED error]_vars
  /\ [][(lastFile' # lastFile \/ (qrCode # Empty /\ \E now \in Clock : downloadQRCode(now)))
         => UNCHANGED error]_vars

\* the size error is still displayed after a later accepted upload was
\* processed into the preview and a file was downloaded
C17_Witness ==
  /\ error = ErrLogoSize
  /\ inputFile # <<>>
  /\ ~FileTooLarge(SizeOf(inputFile[1]))
  /\ logoPreview = ProcessLogo(inputFile[1])
  /\ lastFile # <<>>

====
